---- MODULE Spec2Model ----
(***************************************************************************)
(* Monte Carlo DCF simulator (src/script.js): the forward driver           *)
(* runSimulation, the reverse driver runImpliedSimulation, the seeded      *)
(* generator, the triangular sampler and the globals they publish.         *)
(*                                                                         *)
(* Numbers.  A JavaScript number is modelled as a record: a finite         *)
(* fixed-point integer, NaN, +Infinity or -Infinity, with the IEEE rules   *)
(* for the non-finite cases (signed zeros are not distinguished).  Rates   *)
(* (g, r) are in units of 1e-4, so the loop's epsilon 0.0001 is 1; money   *)
(* and prices are whole units; a uniform deviate is in units of 1/UScale.  *)
(* Finite results are rounded down to the unit.                            *)
(*                                                                         *)
(* Trials.  Trial counts are in units of TrialUnit trials: the chunk       *)
(* sizes 50000 and 20000 and the confirmation threshold 200000 of the      *)
(* source are divided by TrialUnit.                                        *)
(***************************************************************************)
EXTENDS Integers, Sequences, FiniteSets, TLC

\* ------------------------------------------------------------ bounds and units
\* The largest trial count a form asks for, in units of TrialUnit trials.
MaxTrials == 7
\* Resolution of a uniform deviate: u is one of 0 .. UScale-1, standing for u/UScale.
UScale == 100
\* The longest buffer the statistics functions are called on directly
MaxProbeLen == 3
MaxSeedLen == 5
\* Trials per model trial: the greatest common unit of the chunk sizes.
TrialUnit == 10^4
\* Rates are integers in units of 1/RateScale; the loop's 0.0001 is one unit.
RateScale == 10^4

\* ------------------------------------------------------------ numbers
Fin(n) == [k |-> "fin", v |-> n]
NaN == [k |-> "nan", v |-> 0]
PInf == [k |-> "inf", v |-> 1]
NInf == [k |-> "inf", v |-> -1]

IsFin(a) == a.k = "fin"
IsNaN(a) == a.k = "nan"
IsInf(a) == a.k = "inf"
Sgn(n) == IF n > 0 THEN 1 ELSE IF n < 0 THEN -1 ELSE 0
\* The sign of a number that is not NaN: -1, 0 or 1.
SignOf(a) == IF IsInf(a) THEN a.v ELSE Sgn(a.v)
InfOf(s) == IF s > 0 THEN PInf ELSE NInf

\* a + b
XAdd(a, b) ==
    IF IsNaN(a) \/ IsNaN(b) THEN NaN
    ELSE IF IsInf(a) /\ IsInf(b) THEN (IF a.v = b.v THEN a ELSE NaN)
    ELSE IF IsInf(a) THEN a
    ELSE IF IsInf(b) THEN b
    ELSE Fin(a.v + b.v)

XNeg(a) == IF IsNaN(a) THEN NaN ELSE IF IsInf(a) THEN InfOf(-a.v) ELSE Fin(-a.v)

\* a - b
XSub(a, b) == XAdd(a, XNeg(b))

\* a * b, where the product of the two integers is s times the result's unit
XMul(a, b, s) ==
    IF IsNaN(a) \/ IsNaN(b) THEN NaN
    ELSE IF IsInf(a) \/ IsInf(b)
         THEN (IF SignOf(a) * SignOf(b) = 0 THEN NaN ELSE InfOf(SignOf(a) * SignOf(b)))
    ELSE Fin((a.v * b.v) \div s)

\* a / b, where s times the quotient of the two integers is in the result's unit
XDiv(a, b, s) ==
    IF IsNaN(a) \/ IsNaN(b) THEN NaN
    ELSE IF IsInf(a) /\ IsInf(b) THEN NaN
    ELSE IF IsInf(a) THEN InfOf(a.v * (IF SignOf(b) < 0 THEN -1 ELSE 1))
    ELSE IF IsInf(b) THEN Fin(0)
    ELSE IF b.v = 0 THEN (IF a.v = 0 THEN NaN ELSE InfOf(Sgn(a.v)))
    ELSE Fin((a.v * s) \div b.v)

\* a < b, a <= b, a > b: false as soon as one side is NaN
XLt(a, b) ==
    /\ ~IsNaN(a)
    /\ ~IsNaN(b)
    /\ IF IsInf(a) /\ IsInf(b) THEN a.v < b.v
       ELSE IF IsInf(a) THEN a.v < 0
       ELSE IF IsInf(b) THEN b.v > 0
       ELSE a.v < b.v
XLe(a, b) == ~IsNaN(a) /\ ~IsNaN(b) /\ ~XLt(b, a)
XGt(a, b) == XLt(b, a)

\* isNaN(v), Number.isFinite(v)
isNaN(a) == IsNaN(a)
isFinite(a) == IsFin(a)

RECURSIVE ISqrtIn(_, _, _)
ISqrtIn(n, lo, hi) ==
    IF lo >= hi THEN lo
    ELSE LET mid == (lo + hi + 1) \div 2
         IN IF mid * mid <= n THEN ISqrtIn(n, mid, hi) ELSE ISqrtIn(n, lo, mid - 1)
\* The integer square root, rounded down (n < 2^30).
ISqrt(n) == ISqrtIn(n, 0, IF n < 32767 THEN n ELSE 32767)

\* Math.sqrt(a), for a in squared units
XSqrt(a) ==
    IF IsNaN(a) THEN NaN
    ELSE IF IsInf(a) THEN (IF a.v > 0 THEN PInf ELSE NaN)
    ELSE IF a.v < 0 THEN NaN
    ELSE Fin(ISqrt(a.v))

\* ------------------------------------------------------------ 32-bit words
\* A 32-bit word is <<hi, lo>>, two 16-bit halves.
W16 == 2^16
W8 == 2^8

RECURSIVE XorBits(_, _)
\* a ^ b, bit by bit
XorBits(a, b) ==
    IF a = 0 THEN b
    ELSE IF b = 0 THEN a
    ELSE ((a + b) % 2) + 2 * XorBits(a \div 2, b \div 2)

RECURSIVE OrBits(_, _)
\* a | b, bit by bit
OrBits(a, b) ==
    IF a = 0 THEN b
    ELSE IF b = 0 THEN a
    ELSE (IF a % 2 = 1 \/ b % 2 = 1 THEN 1 ELSE 0) + 2 * OrBits(a \div 2, b \div 2)

\* The two operations on 4-bit digits, tabulated
XorDigit == [a \in 0..15 |-> [b \in 0..15 |-> XorBits(a, b)]]
OrDigit == [a \in 0..15 |-> [b \in 0..15 |-> OrBits(a, b)]]

\* a ^ b and a | b for 16-bit a and b, digit by digit
BitXor(a, b) ==
    XorDigit[a % 16][b % 16]
    + 16 * XorDigit[(a \div 16) % 16][(b \div 16) % 16]
    + 256 * XorDigit[(a \div 256) % 16][(b \div 256) % 16]
    + 4096 * XorDigit[a \div 4096][b \div 4096]
BitOr(a, b) ==
    OrDigit[a % 16][b % 16]
    + 16 * OrDigit[(a \div 16) % 16][(b \div 16) % 16]
    + 256 * OrDigit[(a \div 256) % 16][(b \div 256) % 16]
    + 4096 * OrDigit[a \div 4096][b \div 4096]

\* x ^ y, x | c (c < 2^16), x >>> k (0 < k < 16), x + y, x - y, all modulo 2^32
Xor32(x, y) == <<BitXor(x[1], y[1]), BitXor(x[2], y[2])>>
Or32(x, c) == <<x[1], BitOr(x[2], c)>>
Shr32(x, k) == <<x[1] \div 2^k, (x[2] \div 2^k) + (x[1] % 2^k) * 2^(16 - k)>>
Add32(x, y) == <<(x[1] + y[1] + ((x[2] + y[2]) \div W16)) % W16, (x[2] + y[2]) % W16>>
Neg32(x) == IF x[2] = 0 THEN <<(W16 - x[1]) % W16, 0>> ELSE <<W16 - 1 - x[1], W16 - x[2]>>
Sub32(x, y) == Add32(x, Neg32(y))
\* x << k, modulo 2^32 (0 < k < 16)
Shl32(x, k) ==
    <<((x[1] * 2^k) + (x[2] \div 2^(16 - k))) % W16, (x[2] * 2^k) % W16>>

\* The low 16 bits of a * b, for 16-bit a and b
MulLow16(a, b) == ((a % W8) * b + (((a \div W8) * b) % W8) * W8) % W16
\* The bits 16.. of a * b, for 16-bit a and b
MulHigh16(a, b) ==
    LET t1 == (a \div W8) * b
        t0 == (a % W8) * b
    IN (t1 \div W8) + ((t0 + (t1 % W8) * W8) \div W16)

\* Math.imul(x, y): the low 32 bits of the product
Imul(x, y) ==
    <<(MulHigh16(x[2], y[2]) + MulLow16(x[1], y[2]) + MulLow16(x[2], y[1])) % W16,
      MulLow16(x[2], y[2])>>

\* ------------------------------------------------------------ generator
\* 0x6D2B79F5
MulberryIncrement == <<27947, 31221>>

\* mulberry32's state after one call, a += 0x6D2B79F5, as the 32-bit word the
\* bit operations see (a itself stays an exact integer below 2^53)
MulberryNext(a) == Add32(a, MulberryIncrement)

\* t = Math.imul(t ^ (t >>> 15), t | 1), for t = a
MulberryT1(a) == Imul(Xor32(a, Shr32(a, 15)), Or32(a, 1))
\* t ^= t + Math.imul(t ^ (t >>> 7), t | 61)
MulberryT2(t) == Xor32(Add32(t, Imul(Xor32(t, Shr32(t, 7)), Or32(t, 61))), t)
\* (t ^ (t >>> 14)) >>> 0
MulberryT3(t) == Xor32(t, Shr32(t, 14))
\* The word one call returns before the division by 2^32, from the state after
\* the increment.
MulberryOut(a) == MulberryT3(MulberryT2(MulberryT1(a)))

\* word / 4294967296, in units of 1/UScale
WordToU(w) == (w[1] * UScale) \div W16

RECURSIVE HashFromShift4(_, _, _)
\* Variant: the hash shifts by 4 bits.
HashFromShift4(str, i, seedInt) ==
    IF i > Len(str) THEN seedInt
    ELSE HashFromShift4(str, i + 1,
                        Add32(Sub32(Shl32(seedInt, 4), seedInt), <<0, str[i]>>))

RECURSIVE HashFrom(_, _, _)
\* The loop over the seed string from its i-th character, seedInt being the
\* hash so far: seedInt = ((seedInt << 5) - seedInt) + str.charCodeAt(i); seedInt |= 0
HashFrom(str, i, seedInt) ==
    IF i > Len(str) THEN seedInt
    ELSE HashFrom(str, i + 1,
                  Add32(Sub32(Shl32(seedInt, 5), seedInt), <<0, str[i]>>))
\* The seed integer of a seed string (a sequence of char codes), as a 32-bit word
SeedHash(str) == HashFrom(str, 1, <<0, 0>>)

\* ------------------------------------------------------------ sampler
\* u < c for c = m / d, the comparison of triRandom, decided without rounding c
ULessThanC(u, m, d) ==
    LET c == XDiv(m, d, 1)
    IN IF ~IsFin(c) THEN XLt(Fin(u), c)
       ELSE IF IsInf(d) THEN u < 0
       ELSE IF d.v > 0 THEN u * d.v < UScale * m.v
       ELSE u * d.v > UScale * m.v

\* Variant: the upper leg uses the width of the lower leg.
triRandomWrongLeg(min, mode, max, u) ==
    IF ULessThanC(u, XSub(mode, min), XSub(max, min))
    THEN XAdd(min, XSqrt(XMul(XMul(Fin(u), XSub(max, min), 1), XSub(mode, min), UScale)))
    ELSE XSub(max, XSqrt(XMul(XMul(Fin(UScale - u), XSub(max, min), 1),
                              XSub(mode, min), UScale)))

\* triRandom(min, mode, max, randomFunc) for the deviate u the generator returned
triRandom(min, mode, max, u) ==
    IF ULessThanC(u, XSub(mode, min), XSub(max, min))
    THEN XAdd(min, XSqrt(XMul(XMul(Fin(u), XSub(max, min), 1), XSub(mode, min), UScale)))
    ELSE XSub(max, XSqrt(XMul(XMul(Fin(UScale - u), XSub(max, min), 1),
                              XSub(max, mode), UScale)))

\* ------------------------------------------------------------ cash flows
RECURSIVE XSum(_, _)
\* arr.reduce((a, b) => a + b, 0) from index i on
XSum(arr, i) == IF i > Len(arr) THEN Fin(0) ELSE XAdd(arr[i], XSum(arr, i + 1))

\* mean(arr)
mean(arr) == IF Len(arr) = 0 THEN Fin(0) ELSE XDiv(XSum(arr, 1), Fin(Len(arr)), 1)

\* calcFcf0(cfoArr, cfiArr, method)
calcFcf0(cfoArr, cfiArr, method) ==
    LET fcfArr == [i \in 1..Len(cfoArr) |->
                     IF i <= Len(cfiArr) THEN XSub(cfoArr[i], cfiArr[i]) ELSE NaN]
        weighted == [i \in 1..Len(fcfArr) |-> XMul(fcfArr[i], Fin(i), 1)]
        weightSum == (Len(fcfArr) * (Len(fcfArr) + 1)) \div 2
    IN IF method = "avg" THEN mean(fcfArr)
       ELSE XDiv(XSum(weighted, 1), Fin(weightSum), 1)

RECURSIVE XPow(_, _)
\* Math.pow(b, n) for a rate-scaled b, in units of 1/RateScale
XPow(b, n) == IF n = 0 THEN Fin(RateScale) ELSE XMul(XPow(b, n - 1), b, RateScale)

RECURSIVE SumPv(_, _, _)
\* sum of futureFcfInputs[j] / Math.pow(1 + r, j + 1) from (1-based) index j on
SumPv(cfs, r, j) ==
    IF j > Len(cfs) THEN Fin(0)
    ELSE XAdd(XDiv(cfs[j], XPow(XAdd(Fin(RateScale), r), j), RateScale), SumPv(cfs, r, j + 1))

\* futureFcfInputs[futureFcfInputs.length - 1]
LastOf(cfs) == IF Len(cfs) = 0 THEN NaN ELSE cfs[Len(cfs)]

\* The price of one trial of runSimulation's loop, for a sampled (g, r)
TrialPrice(params, fcf0, netDebt, g, r) ==
    LET equityValue ==
          IF params.calcMode = "future"
          THEN LET sumPv == SumPv(params.futureFcfInputs, r, 1)
                   fcf5 == LastOf(params.futureFcfInputs)
                   tv == XDiv(XMul(fcf5, XAdd(Fin(RateScale), g), RateScale),
                              XSub(r, g), RateScale)
                   tvPv == XDiv(tv, XPow(XAdd(Fin(RateScale), r),
                                         Len(params.futureFcfInputs)), RateScale)
               IN XSub(XAdd(sumPv, tvPv), netDebt)
          ELSE LET fcf1 == XMul(fcf0, XAdd(Fin(RateScale), g), RateScale)
                   tv == XDiv(fcf1, XSub(r, g), RateScale)
               IN XSub(tv, netDebt)
    IN XDiv(equityValue, params.shares, 1)

\* Variant: the mode scenario is priced without the test of r - g.
ModePriceUnguarded(params, fcf0, netDebt) ==
    TrialPrice(params, fcf0, netDebt, params.gMode,
               IF params.rFixedCheck THEN params.rFixed ELSE params.rMode)

\* calcModePrice(params, fcf0, netDebt)
calcModePrice(params, fcf0, netDebt) ==
    LET g == params.gMode
        r == IF params.rFixedCheck THEN params.rFixed ELSE params.rMode
        equityValue ==
          IF params.calcMode = "future"
          THEN LET sumPv == SumPv(params.futureFcfInputs, r, 1)
                   fcf5 == LastOf(params.futureFcfInputs)
                   tv == XDiv(XMul(fcf5, XAdd(Fin(RateScale), g), RateScale),
                              XSub(r, g), RateScale)
                   tvPv == XDiv(tv, XPow(XAdd(Fin(RateScale), r),
                                         Len(params.futureFcfInputs)), RateScale)
               IN XSub(XAdd(sumPv, tvPv), netDebt)
          ELSE LET fcf1 == XMul(fcf0, XAdd(Fin(RateScale), g), RateScale)
                   tv == XDiv(fcf1, XSub(r, g), RateScale)
               IN XSub(tv, netDebt)
    IN IF XLe(XSub(r, g), Fin(0)) THEN NaN ELSE XDiv(equityValue, params.shares, 1)

\* One cell of updateSensitivityTable: null (here NaN) unless r - g > 0
SensitivityCell(params, fcf0, g, r) ==
    LET denom == XSub(r, g)
        net == XSub(params.debt, params.cash)
    IN IF ~XGt(denom, Fin(0)) THEN NaN
       ELSE IF params.calcMode = "future"
       THEN LET sumPv == SumPv(params.futureFcfInputs, r, 1)
                fcf5 == LastOf(params.futureFcfInputs)
                tv == XDiv(XMul(fcf5, XAdd(Fin(RateScale), g), RateScale),
                           XSub(r, g), RateScale)
                tvPv == XDiv(tv, XPow(XAdd(Fin(RateScale), r),
                                      Len(params.futureFcfInputs)), RateScale)
            IN XDiv(XSub(XAdd(sumPv, tvPv), net), params.shares, 1)
       ELSE LET fcf1 == XMul(fcf0, XAdd(Fin(RateScale), g), RateScale)
                tv == XDiv(fcf1, denom, RateScale)
            IN XDiv(XSub(tv, net), params.shares, 1)

\* The results matrix of updateSensitivityTable: rows g = max, mode, min
SensitivityResults(fcf0, params) ==
    LET gVals == <<params.gMax, params.gMode, params.gMin>>
        rVals == IF ~params.rFixedCheck
                 THEN <<params.rMin, params.rMode, params.rMax>>
                 ELSE <<params.rFixed>>
    IN [i \in 1..3 |-> [j \in 1..Len(rVals) |->
                          SensitivityCell(params, fcf0, gVals[i], rVals[j])]]

\* ------------------------------------------------------------ statistics
\* The order Float64Array.prototype.sort() puts two numbers in: NaN last
SortsBefore(a, b) == IF IsNaN(a) THEN FALSE ELSE IF IsNaN(b) THEN TRUE ELSE XLe(a, b)

RECURSIVE InsertSorted(_, _)
InsertSorted(x, s) ==
    IF s = <<>> THEN <<x>>
    ELSE IF SortsBefore(x, Head(s)) THEN <<x>> \o s
    ELSE <<Head(s)>> \o InsertSorted(x, Tail(s))

RECURSIVE SortAsc(_)
\* arr.sort() of a typed array: ascending
SortAsc(s) == IF s = <<>> THEN <<>> ELSE InsertSorted(Head(s), SortAsc(Tail(s)))

RECURSIVE FirstGreaterFrom(_, _, _, _)
FirstGreaterFrom(sortedArr, value, lo, hi) ==
    IF lo < hi
    THEN LET mid == (lo + hi) \div 2
         IN IF XLe(sortedArr[mid + 1], value)
            THEN FirstGreaterFrom(sortedArr, value, mid + 1, hi)
            ELSE FirstGreaterFrom(sortedArr, value, lo, mid)
    ELSE lo
\* Variant: the search starts with hi at the last index.
firstGreaterIndexShort(sortedArr, value) ==
    FirstGreaterFrom(sortedArr, value, 0, Len(sortedArr) - 1)

\* firstGreaterIndex(sortedArr, value): the 0-based index of the first element > value
firstGreaterIndex(sortedArr, value) == FirstGreaterFrom(sortedArr, value, 0, Len(sortedArr))

\* Variant: the interpolation weights are exchanged.
percentileSwapped(sortedArr, p) ==
    IF Len(sortedArr) = 0 THEN Fin(0)
    ELSE LET index == (Len(sortedArr) - 1) * p[1]
             lower == index \div p[2]
             upper == IF index % p[2] = 0 THEN lower ELSE lower + 1
             weight == index % p[2]
         IN IF upper >= Len(sortedArr) THEN sortedArr[lower + 1]
            ELSE XDiv(XAdd(XMul(sortedArr[lower + 1], Fin(weight), 1),
                           XMul(sortedArr[upper + 1], Fin(p[2] - weight), 1)),
                      Fin(p[2]), 1)

\* percentile(sortedArr, p) for p = p[1] / p[2]: linear interpolation at the
\* rank (length - 1) * p between Math.floor and Math.ceil of it
percentile(sortedArr, p) ==
    IF Len(sortedArr) = 0 THEN Fin(0)
    ELSE LET index == (Len(sortedArr) - 1) * p[1]
             lower == index \div p[2]
             upper == IF index % p[2] = 0 THEN lower ELSE lower + 1
             weight == index % p[2]
         IN IF upper >= Len(sortedArr) THEN sortedArr[lower + 1]
            ELSE XDiv(XAdd(XMul(sortedArr[lower + 1], Fin(p[2] - weight), 1),
                           XMul(sortedArr[upper + 1], Fin(weight), 1)),
                      Fin(p[2]), 1)

\* A ratio count / n times 100, in units of 0.01 percent
Percent(count, n) == Fin((count * 10000) \div n)

RECURSIVE RankCount(_, _, _)
\* The loop of percentileRank from (1-based) index i on: it counts the elements
\* <= value and breaks at the first that is not
RankCount(sortedArr, value, i) ==
    IF i > Len(sortedArr) THEN 0
    ELSE IF XLe(sortedArr[i], value) THEN 1 + RankCount(sortedArr, value, i + 1)
    ELSE 0

\* Variant: the loop counts the elements < value.
percentileRankStrict(sortedArr, value) ==
    IF Len(sortedArr) = 0 \/ ~isFinite(value) THEN NaN
    ELSE Percent(Cardinality({i \in 1..Len(sortedArr) : XLt(sortedArr[i], value)}),
                 Len(sortedArr))

\* percentileRank(sortedArr, value)
percentileRank(sortedArr, value) ==
    IF Len(sortedArr) = 0 \/ ~isFinite(value) THEN NaN
    ELSE Percent(RankCount(sortedArr, value, 1), Len(sortedArr))

\* getStats(sortedArr) of the reverse driver
getStats(sortedArr) ==
    IF Len(sortedArr) = 0
    THEN [mean |-> Fin(0), median |-> Fin(0), p05 |-> Fin(0), p95 |-> Fin(0)]
    ELSE [mean |-> XDiv(XSum(sortedArr, 1), Fin(Len(sortedArr)), 1),
          median |-> sortedArr[(Len(sortedArr) \div 2) + 1],
          p05 |-> sortedArr[((Len(sortedArr) * 5) \div 100) + 1],
          p95 |-> sortedArr[((Len(sortedArr) * 95) \div 100) + 1]]

\* ------------------------------------------------------------ inputs
\* Program constants, in trials
chunkSize == 50000
impliedChunkSize == 20000
confirmThreshold == 200000

\* What getInputs() returns for a filled form.  Seeds are sequences of char codes:
\* <<52, 50>> is "42".  parseFloat gives NaN for an empty field and Infinity for
\* "Infinity"; debt and cash are (parseFloat(..) || 0), so never NaN.
BaseInputs ==
    [calcMode |-> "historical",
     cfoInputs |-> <<Fin(1000), Fin(1100), Fin(1200), Fin(1300), Fin(1400)>>,
     cfiInputs |-> <<Fin(200), Fin(200), Fin(200), Fin(200), Fin(200)>>,
     fcfMethod |-> "avg",
     futureFcfInputs |-> <<Fin(100), Fin(110), Fin(120), Fin(130), Fin(140)>>,
     gMin |-> Fin(300), gMode |-> Fin(500), gMax |-> Fin(700),
     rFixedCheck |-> TRUE,
     rMin |-> Fin(800), rMode |-> Fin(1000), rMax |-> Fin(1200), rFixed |-> Fin(1000),
     debt |-> Fin(500), cash |-> Fin(300), shares |-> Fin(10),
     currentPrice |-> Fin(2000),
     iterations |-> Fin(MaxTrials),
     randomSeed |-> <<52, 50>>]

\* The form after resetInputs: every text field empty, the radios and the
\* checkbox at their defaults.
BlankInputs ==
    [BaseInputs EXCEPT
       !.cfoInputs = <<NaN, NaN, NaN, NaN, NaN>>,
       !.cfiInputs = <<NaN, NaN, NaN, NaN, NaN>>,
       !.futureFcfInputs = <<NaN, NaN, NaN, NaN, NaN>>,
       !.gMin = NaN, !.gMode = NaN, !.gMax = NaN,
       !.rFixedCheck = FALSE,
       !.rMin = NaN, !.rMode = NaN, !.rMax = NaN, !.rFixed = NaN,
       !.debt = Fin(0), !.cash = Fin(0), !.shares = NaN, !.currentPrice = NaN,
       !.iterations = NaN, !.randomSeed = <<>>]

\* A form with one growth rate and one discount rate: base cash flow 100,
\* g = 0.05, r = 0.10, no net debt, 100 shares.
RoundTripInputs ==
    [BaseInputs EXCEPT
       !.cfoInputs = <<Fin(100), Fin(100), Fin(100), Fin(100), Fin(100)>>,
       !.cfiInputs = <<Fin(0), Fin(0), Fin(0), Fin(0), Fin(0)>>,
       !.gMin = Fin(500), !.gMode = Fin(500), !.gMax = Fin(500),
       !.rFixed = Fin(1000), !.debt = Fin(0), !.cash = Fin(0),
       !.shares = Fin(100), !.iterations = Fin(2)]

\* The forms a session may hold, by name.
Profile(id) ==
    CASE id = "base" -> BaseInputs
      [] id = "blank" -> BlankInputs
      [] id = "tri" -> [BaseInputs EXCEPT !.rFixedCheck = FALSE, !.iterations = Fin(6),
                                           !.fcfMethod = "weighted",
                                           !.randomSeed = <<115, 101, 101, 100, 49>>]
      [] id = "quick" -> [BaseInputs EXCEPT !.iterations = Fin(2)]
      [] id = "unseeded" -> [BaseInputs EXCEPT !.iterations = Fin(1), !.randomSeed = <<>>]
      [] id = "overlap" -> [BaseInputs EXCEPT !.gMax = Fin(1200), !.rFixed = Fin(600),
                                               !.iterations = Fin(6)]
      [] id = "zero" -> [BaseInputs EXCEPT !.gMin = Fin(800), !.gMode = Fin(1000),
                                            !.gMax = Fin(1200), !.rFixed = Fin(500)]
      [] id = "future" -> [BaseInputs EXCEPT !.calcMode = "future", !.rFixedCheck = FALSE,
                                              !.iterations = Fin(6),
                                              !.cfoInputs = <<NaN, NaN, NaN, NaN, NaN>>]
      [] id = "gbad" -> [BaseInputs EXCEPT !.gMin = Fin(600), !.iterations = Fin(2)]
      [] id = "rbad" -> [BaseInputs EXCEPT !.rFixedCheck = FALSE, !.rMode = Fin(1300),
                                            !.iterations = Fin(2)]
      [] id = "shares0" -> [BaseInputs EXCEPT !.shares = Fin(0), !.iterations = Fin(2)]
      [] id = "rnan" -> [BaseInputs EXCEPT !.rFixed = NaN, !.iterations = Fin(2)]
      [] id = "rtrinan" -> [BaseInputs EXCEPT !.rFixedCheck = FALSE, !.rMode = NaN,
                                               !.iterations = Fin(2)]
      [] id = "debtinf" -> [BaseInputs EXCEPT !.debt = PInf, !.iterations = Fin(2)]
      [] id = "iter0" -> [BaseInputs EXCEPT !.iterations = Fin(0)]
      [] id = "iterneg" -> [BaseInputs EXCEPT !.iterations = Fin(-1)]
      [] id = "big" -> [BaseInputs EXCEPT
                          !.iterations = Fin((confirmThreshold \div TrialUnit) + 1)]
      [] id = "evneg" -> [BaseInputs EXCEPT !.currentPrice = Fin(10), !.debt = Fin(0),
                                             !.cash = Fin(500), !.iterations = Fin(6)]
      [] id = "nomode" -> [BaseInputs EXCEPT !.gMode = Fin(900), !.gMax = Fin(1200),
                                              !.rFixed = Fin(700), !.iterations = Fin(2)]
      [] id = "priceinf" -> [BaseInputs EXCEPT !.currentPrice = PInf, !.iterations = Fin(2)]
      [] id = "rt" -> RoundTripInputs
      [] id = "rtback" -> [RoundTripInputs EXCEPT !.currentPrice = Fin(21)]

\* A session draws its forms from one family.
Families ==
    {{"base"},
     {"quick", "unseeded"},
     {"quick", "zero"},
     {"overlap", "debtinf"},
     {"quick", "gbad", "rbad", "shares0"},
     {"quick", "rnan", "rtrinan"},
     {"quick", "iter0", "iterneg"},
     {"big"},
     {"quick", "evneg"},
     {"tri"},
     {"future"},
     {"nomode", "priceinf"},
     {"rt", "rtback"}}

\* The values Math.random() may return, in units of 1/UScale
MathRandomValues == {20, 80}

\* ------------------------------------------------------------ state
VARIABLES
    family,               \* the forms this session may hold
    form,                 \* the form's fields now (a profile name)
    fwd,                  \* runSimulation: where it is, and its locals
    rev,                  \* runImpliedSimulation: where it is, and its locals
    runBtnDisabled,       \* runMcBtn.disabled
    resetBtnDisabled,     \* resetBtn.disabled
    impliedBtnDisabled,   \* runImpliedBtn.disabled
    progressHidden,       \* progressContainer has class hidden
    progressValue,        \* progressBar.value
    warnings,             \* what warningArea shows
    simulationResults,    \* global: the sorted valid prices
    lastSimulationParams, \* global: the summary of the last completed forward run
    display,              \* what updateChart and updateSensitivityTable were handed
    impliedResults,       \* global: the reverse run's samples and statistics
    impliedDisplay,       \* what renderImpliedHeatmap was handed
    fwdTrials,            \* history: (g, r, price) of every trial of the latest forward run
    revTrials,            \* history: (g, r) of every trial of the latest reverse run
    published,            \* history: what the latest seeded forward runs published
    abortRequested,       \* the caller has asked to cancel the forward run in progress
    probe                 \* a direct call of a function of script.js: arguments, result

vars == <<family, form, fwd, rev, runBtnDisabled, resetBtnDisabled, impliedBtnDisabled,
          progressHidden, progressValue, warnings, simulationResults,
          lastSimulationParams, display, impliedResults, impliedDisplay,
          fwdTrials, revTrials, published, abortRequested, probe>>

uiVars == <<runBtnDisabled, resetBtnDisabled, impliedBtnDisabled, progressHidden,
            progressValue, warnings>>
fwdOut == <<simulationResults, lastSimulationParams, display>>
revOut == <<impliedResults, impliedDisplay>>

ProfileNames == UNION Families \cup {"blank"}

\* runSimulation's locals when it is not running; pc is how its last call ended.
FwdIdle(pc) ==
    [pc |-> pc, params |-> "none", fcf0 |-> Fin(0), netDebt |-> Fin(0),
     seeded |-> FALSE, a |-> <<0, 0>>, draws |-> 0,
     pricesBuffer |-> <<>>, validCount |-> 0, processed |-> 0]

\* runImpliedSimulation's locals when it is not running.
RevIdle(pc) ==
    [pc |-> pc, params |-> "none", fcf0 |-> Fin(0), EV_market |-> Fin(0),
     seeded |-> FALSE, a |-> <<0, 0>>, draws |-> 0,
     impliedFcfSamples |-> <<>>, impliedGSamples |-> <<>>, processed |-> 0]

NoParams == [params |-> "none"]
NoDisplay == [params |-> "none"]
\* No seeded forward run has published yet.
NoPublication == [params |-> "none", runs |-> 0]
\* The statistics functions have not been called directly on the buffer.
NoProbe(sortedArr) ==
    [sortedArr |-> sortedArr, last |-> "none", p |-> <<0, 1>>, pct |-> Fin(0),
     value |-> Fin(0), rank |-> NaN, chained |-> FALSE]

\* The page after load: nothing runs, nothing is stored.
PageLoaded ==
    /\ fwd = FwdIdle("idle")
    /\ rev = RevIdle("idle")
    /\ runBtnDisabled = FALSE
    /\ resetBtnDisabled = FALSE
    /\ impliedBtnDisabled = FALSE
    /\ progressHidden = TRUE
    /\ progressValue = 0
    /\ warnings = {}
    /\ simulationResults = <<>>
    /\ lastSimulationParams = NoParams
    /\ display = NoDisplay
    /\ impliedResults = NoParams
    /\ impliedDisplay = NoDisplay
    /\ fwdTrials = <<>>
    /\ revTrials = <<>>
    /\ published = NoPublication
    /\ abortRequested = FALSE

Init ==
    /\ family \in Families
    /\ form \in family
    /\ PageLoaded
    /\ probe = NoProbe(<<>>)

\* getInputs()
getInputs == Profile(form)

\* ------------------------------------------------------------ generator in a run
\* Variant: the seed field is ignored and every run draws from Math.random.
NeverSeeded(params) == FALSE

\* Whether the run is seeded: if (params.randomSeed)
SeededRun(params) == params.randomSeed # <<>>

\* The generator's initial state: the seed integer, when seeded
InitialState(params) ==
    IF SeededRun(params) THEN SeedHash(params.randomSeed) ELSE <<0, 0>>

\* The k-th deviate (k = 1, 2, ..) drawn after the generator state a: from
\* mulberry32 when seeded, else the k-th of the values us Math.random returns.
RECURSIVE StateAfter(_, _)
StateAfter(a, k) == IF k = 0 THEN a ELSE StateAfter(MulberryNext(a), k - 1)
Deviate(seeded, a, us, k) ==
    IF seeded THEN WordToU(MulberryOut(StateAfter(a, k))) ELSE us[k]

\* Math.round((processed / iterations) * 100)
ProgressPct(processed, iterations) == ((processed * 200) + iterations) \div (2 * iterations)

\* Variant: the end of the chunk is not clamped to the trial count.
ChunkEndUnclamped(processed, size, iterations) == processed + size

\* Math.min(processed + chunkSize, params.iterations)
ChunkEnd(processed, size, iterations) ==
    IF processed + size < iterations THEN processed + size ELSE iterations

\* The streams of nDraws deviates Math.random may return: one value on the odd
\* draws and one on the even draws
MathRandomStreams(nDraws) ==
    {[i \in 1..nDraws |-> IF i % 2 = 1 THEN v ELSE w] : v, w \in MathRandomValues}

\* The deviates Math.random may return during one chunk (none are needed when seeded)
ChunkDeviates(seeded, nDraws) ==
    IF seeded THEN {<<>>} ELSE MathRandomStreams(nDraws)

\* ------------------------------------------------------------ forward driver
\* The common and per-mode validation of runSimulation
ForwardNumbersValid(params) ==
    /\ \A v \in {params.gMin, params.gMode, params.gMax, params.debt, params.cash,
                 params.shares, params.currentPrice, params.iterations} : ~isNaN(v)
    /\ IF params.calcMode = "future"
       THEN \A i \in 1..Len(params.futureFcfInputs) : ~isNaN(params.futureFcfInputs[i])
       ELSE /\ \A i \in 1..Len(params.cfoInputs) : ~isNaN(params.cfoInputs[i])
            /\ \A i \in 1..Len(params.cfiInputs) : ~isNaN(params.cfiInputs[i])

\* params.shares <= 0
SharesRejected(params) == XLe(params.shares, Fin(0))

\* params.iterations > 200000: the confirm() dialog is shown
NeedsConfirm(params) == XGt(params.iterations, Fin(confirmThreshold \div TrialUnit))

\* The range validation of g
GrowthRangeRejected(params) ==
    XGt(params.gMin, params.gMode) \/ XGt(params.gMode, params.gMax)

\* Variant: the range of r is not validated.
RangeNeverRejected(params) == FALSE

\* The range validation of r
DiscountRangeRejected(params) ==
    /\ ~params.rFixedCheck
    /\ XGt(params.rMin, params.rMode) \/ XGt(params.rMode, params.rMax)

\* fcf0 of runSimulation
ForwardFcf0(params) ==
    IF params.calcMode = "historical"
    THEN calcFcf0(params.cfoInputs, params.cfiInputs, params.fcfMethod)
    ELSE LastOf(params.futureFcfInputs)

\* The warnings runSimulation shows
ForwardWarnings(params, fcf0) ==
    (IF XLe(fcf0, Fin(0)) THEN {"fcf"} ELSE {})
    \cup (IF ~params.rFixedCheck /\ XLe(params.rMin, params.gMax) THEN {"range"} ELSE {})

\* Variant: the loop discards no trial.
NeverDiscarded(g, r) == FALSE

\* The loop's discard test: r - g <= 0.0001
TrialDiscarded(g, r) == XLe(XSub(r, g), Fin(RateScale \div 10000))

\* Variant: the loop stores the price without testing it.
StoresAnyPrice(price) == TRUE

\* Whether the loop stores the price: Number.isFinite(price)
PriceStored(price) == isFinite(price)

\* A trial that reaches pricesBuffer[validCount++] = price
TrialKept(g, r, price) == ~TrialDiscarded(g, r) /\ PriceStored(price)

\* Variant: the count of draws advances by one per trial whatever the mode.
OneDrawPerTrial(params) == 1

\* Draws per trial of the forward loop
ForwardDrawsPerTrial(params) == IF params.rFixedCheck THEN 1 ELSE 2

\* The (g, r) of the trial that starts after k draws of this chunk
ForwardSample(params, seeded, a, us, k) ==
    [g |-> triRandom(params.gMin, params.gMode, params.gMax, Deviate(seeded, a, us, k + 1)),
     r |-> IF params.rFixedCheck THEN params.rFixed
           ELSE triRandom(params.rMin, params.rMode, params.rMax,
                          Deviate(seeded, a, us, k + 2))]

\* Variant: a kept price is written to the slot of its trial index.
ForwardStoreAtTrial(params, acc, t, price) ==
    [k |-> acc.k + ForwardDrawsPerTrial(params),
     trials |-> Append(acc.trials, [g |-> t.g, r |-> t.r, price |-> price]),
     buf |-> IF TrialKept(t.g, t.r, price)
             THEN [acc.buf EXCEPT ![Len(acc.trials) + 1] = price]
             ELSE acc.buf,
     validCount |-> IF TrialKept(t.g, t.r, price) THEN acc.validCount + 1
                    ELSE acc.validCount]

\* The loop body after the price is known.  acc holds the buffer, validCount,
\* the draws taken in this chunk and the trials' history.
ForwardStore(params, acc, t, price) ==
    [k |-> acc.k + ForwardDrawsPerTrial(params),
     trials |-> Append(acc.trials, [g |-> t.g, r |-> t.r, price |-> price]),
     buf |-> IF TrialKept(t.g, t.r, price)
             THEN [acc.buf EXCEPT ![acc.validCount + 1] = price]
             ELSE acc.buf,
     validCount |-> IF TrialKept(t.g, t.r, price) THEN acc.validCount + 1
                    ELSE acc.validCount]

\* One trial of the loop, for its sampled pair t
ForwardTrial(params, loc, acc, t) ==
    ForwardStore(params, acc, t, TrialPrice(params, loc.fcf0, loc.netDebt, t.g, t.r))

RECURSIVE ForwardTrials(_, _, _, _, _, _)
\* The trials i .. end-1 of one chunk
ForwardTrials(params, loc, us, i, end, acc) ==
    IF i >= end THEN acc
    ELSE ForwardTrials(params, loc, us, i + 1, end,
           ForwardTrial(params, loc, acc,
                        ForwardSample(params, loc.seeded, loc.a, us, acc.k)))

\* Variant: the loop runs every remaining trial in one pass.
ForwardWholeRun(params, loc) == params.iterations.v

\* const end = Math.min(processed + chunkSize, params.iterations)
ForwardChunkEnd(params, loc) ==
    ChunkEnd(loc.processed, chunkSize \div TrialUnit, params.iterations.v)

\* The locals, the history and the progress bar after a chunk that ended at end
ForwardAfterChunk(params, loc, end, acc) ==
    [loc |-> [loc EXCEPT !.pricesBuffer = acc.buf, !.validCount = acc.validCount,
                         !.a = IF loc.seeded THEN StateAfter(@, acc.k) ELSE @,
                         !.draws = @ + acc.k,
                         !.processed = end],
     trials |-> acc.trials,
     pct |-> ProgressPct(end, params.iterations.v)]

\* One pass of the while loop: a chunk, processed = end, the progress bar.
ForwardChunk(params, loc, trials, us) ==
    ForwardAfterChunk(params, loc, ForwardChunkEnd(params, loc),
        ForwardTrials(params, loc, us, loc.processed, ForwardChunkEnd(params, loc),
                      [buf |-> loc.pricesBuffer, validCount |-> loc.validCount,
                       k |-> 0, trials |-> trials]))

\* The statistics of runSimulation for the sorted prices
SummaryRecord(loc, prices, n, modePrice, idxGtCurrent) ==
    [params |-> loc.params,
     fcf0 |-> loc.fcf0,
     netDebt |-> loc.netDebt,
     modePrice |-> modePrice,
     meanPrice |-> XDiv(XSum(prices, 1), Fin(n), 1),
     medianPrice |-> prices[(n \div 2) + 1],
     p05 |-> prices[((n * 5) \div 100) + 1],
     p95 |-> prices[((n * 95) \div 100) + 1],
     prob |-> Percent(n - idxGtCurrent, n),
     modePercentile |-> IF ~isNaN(modePrice)
                        THEN Percent(firstGreaterIndex(prices, modePrice), n)
                        ELSE NaN,
     currentPercentile |-> Percent(idxGtCurrent, n)]

\* What runSimulation stores in lastSimulationParams
ForwardSummary(params, loc, prices) ==
    SummaryRecord(loc, prices, Len(prices),
                  calcModePrice(params, loc.fcf0, loc.netDebt),
                  firstGreaterIndex(prices, params.currentPrice))

\* The locals of runSimulation when the loop is reached
ForwardStart(id, params) ==
    [pc |-> "running", params |-> id,
     fcf0 |-> ForwardFcf0(params),
     netDebt |-> XSub(params.debt, params.cash),
     seeded |-> SeededRun(params),
     a |-> InitialState(params),
     draws |-> 0,
     pricesBuffer |-> [i \in 1..params.iterations.v |-> Fin(0)],
     validCount |-> 0, processed |-> 0]

\* The history after a seeded run of the form id published now: what the first
\* and the latest of the form's consecutive runs published, and whether there
\* were one or more of them.
Republished(was, id, now) ==
    IF was.params = id
    THEN [was EXCEPT !.latest = now, !.runs = 2]
    ELSE [params |-> id, first |-> now, latest |-> now, runs |-> 1]

\* A call of runSimulation that returns at a validation alert (or a declined
\* confirm): the warning area was cleared, nothing else happened.
ForwardRejected(pc) ==
    /\ fwd' = FwdIdle(pc)
    /\ warnings' = {}
    /\ UNCHANGED <<family, probe, form, rev, runBtnDisabled, resetBtnDisabled, impliedBtnDisabled,
                   progressHidden, progressValue, fwdOut, revOut, fwdTrials, revTrials,
                   published, abortRequested>>

\* new Float64Array(params.iterations) throws a RangeError for a negative length:
\* the call ends there, after the UI setup and outside the try block.
ForwardAllocationThrows(params) ==
    /\ fwd' = FwdIdle("crashed")
    /\ warnings' = ForwardWarnings(params, ForwardFcf0(params))
    /\ runBtnDisabled' = TRUE
    /\ resetBtnDisabled' = TRUE
    /\ progressHidden' = FALSE
    /\ progressValue' = 0
    /\ UNCHANGED <<family, probe, form, rev, impliedBtnDisabled, fwdOut, revOut, fwdTrials,
                   revTrials, published, abortRequested>>

\* Variant: every pass also hands the run's partial buffer to simulationResults.
ForwardSuspendShared(c) ==
    /\ fwd' = c.loc
    /\ fwdTrials' = c.trials
    /\ progressValue' = c.pct
    /\ runBtnDisabled' = TRUE
    /\ resetBtnDisabled' = TRUE
    /\ progressHidden' = (fwd.pc = "running" /\ progressHidden)
    /\ simulationResults' = SubSeq(c.loc.pricesBuffer, 1, c.loc.validCount)
    /\ UNCHANGED <<lastSimulationParams, display, published, abortRequested>>

\* The run is suspended at await sleep(0) after the pass c.  The buttons were
\* disabled and the indicator shown by the UI setup before the first pass; a
\* later pass writes only the bar's value.
ForwardSuspend(c) ==
    /\ fwd' = c.loc
    /\ fwdTrials' = c.trials
    /\ progressValue' = c.pct
    /\ runBtnDisabled' = TRUE
    /\ resetBtnDisabled' = TRUE
    /\ progressHidden' = (fwd.pc = "running" /\ progressHidden)
    /\ UNCHANGED <<fwdOut, published, abortRequested>>

\* One pass of the loop, up to the await.
ForwardPass(params, loc, trials) ==
    \E us \in ChunkDeviates(loc.seeded,
                (ForwardChunkEnd(params, loc) - loc.processed)
                * ForwardDrawsPerTrial(params)) :
      ForwardSuspend(ForwardChunk(params, loc, trials, us))

\* The sorted prices become the globals; the chart and the table are redrawn.
ForwardPublish(params, loc, trials, prices, summary) ==
    /\ fwd' = FwdIdle("completed")
    /\ simulationResults' = prices
    /\ lastSimulationParams' = summary
    /\ display' = [params |-> loc.params, prices |-> prices,
                   modePrice |-> summary.modePrice,
                   currentPrice |-> params.currentPrice,
                   sensitivity |-> SensitivityResults(loc.fcf0, params)]
    /\ published' = IF params.randomSeed # <<>>
                    THEN Republished(published, loc.params,
                                     [trials |-> trials, buffer |-> prices,
                                      summary |-> summary])
                    ELSE published

\* The loop has ended: the finally block, then the zero-valid alert or the
\* statistics, the globals, the chart and the sensitivity table.
ForwardFinish(params, loc, trials) ==
    /\ runBtnDisabled' = FALSE
    /\ resetBtnDisabled' = FALSE
    /\ progressHidden' = TRUE
    /\ fwdTrials' = trials
    /\ abortRequested' = FALSE
    /\ IF loc.validCount = 0
       THEN /\ fwd' = FwdIdle("zeroValid")
            /\ UNCHANGED <<fwdOut, published>>
       ELSE \E prices \in {SortAsc(SubSeq(loc.pricesBuffer, 1, loc.validCount))} :
              ForwardPublish(params, loc, trials, prices,
                             ForwardSummary(params, loc, prices))

\* Variant: the loop ends after its first pass.
ForwardLoopOnePass(params, loc, trials, shown) ==
    IF loc.processed = 0 /\ loc.processed < params.iterations.v
    THEN ForwardPass(params, loc, trials)
    ELSE /\ ForwardFinish(params, loc, trials)
         /\ progressValue' = shown

\* while (processed < params.iterations): the next pass, or the end of the loop
ForwardLoop(params, loc, trials, shown) ==
    IF loc.processed < params.iterations.v
    THEN ForwardPass(params, loc, trials)
    ELSE /\ ForwardFinish(params, loc, trials)
         /\ progressValue' = shown

\* runSimulation() for the form id with fields params, up to its first await or
\* to its return.
runSimulation(id, params) ==
    IF ~ForwardNumbersValid(params) THEN ForwardRejected("alertNumbers")
    ELSE IF SharesRejected(params) THEN ForwardRejected("alertShares")
    ELSE \/ /\ NeedsConfirm(params)
            /\ ForwardRejected("declined")
         \/ IF GrowthRangeRejected(params) THEN ForwardRejected("alertGRange")
            ELSE IF DiscountRangeRejected(params) THEN ForwardRejected("alertRRange")
            ELSE IF XLt(params.iterations, Fin(0)) THEN ForwardAllocationThrows(params)
            ELSE /\ warnings' = ForwardWarnings(params, ForwardFcf0(params))
                 /\ ForwardLoop(params, ForwardStart(id, params), <<>>, 0)
                 /\ UNCHANGED <<family, probe, form, rev, impliedBtnDisabled, revOut, revTrials>>

\* A click on runMcBtn.
FwdClick ==
    /\ ~runBtnDisabled
    /\ runSimulation(form, getInputs)

\* Variant: after every await the run reads the form again.
FwdResumeRereading ==
    /\ fwd.pc = "running"
    /\ ForwardLoop(getInputs, fwd, fwdTrials, progressValue)
    /\ UNCHANGED <<family, probe, form, rev, impliedBtnDisabled, warnings, revOut, revTrials>>

\* The timer of sleep(0) fires: the loop test, then the next pass or the end.
FwdResume ==
    /\ fwd.pc = "running"
    /\ ForwardLoop(Profile(fwd.params), fwd, fwdTrials, progressValue)
    /\ UNCHANGED <<family, probe, form, rev, impliedBtnDisabled, warnings, revOut, revTrials>>

\* The caller asks to cancel the forward run in progress.  runSimulation reads
\* no flag: the request changes nothing the loop looks at.
RequestAbort ==
    /\ fwd.pc = "running"
    /\ ~abortRequested
    /\ abortRequested' = TRUE
    /\ UNCHANGED <<family, probe, form, fwd, rev, uiVars, fwdOut, revOut, fwdTrials, revTrials,
                   published>>

\* ------------------------------------------------------------ the form
\* The user changes the form's fields.
EditForm ==
    /\ \E id \in family \ {form} : form' = id
    /\ UNCHANGED <<family, probe, fwd, rev, uiVars, fwdOut, revOut, fwdTrials, revTrials,
                   published, abortRequested>>

\* A click on resetBtn, confirmed: resetInputs.
ResetInputs ==
    /\ ~resetBtnDisabled
    /\ form' = "blank"
    /\ simulationResults' = <<>>
    /\ lastSimulationParams' = NoParams
    /\ display' = NoDisplay
    /\ UNCHANGED <<family, probe, fwd, rev, uiVars, revOut, fwdTrials, revTrials, published,
                   abortRequested>>

\* A click on downloadCsvBtn, downloadRawBtn or generatePromptBtn while results
\* are stored: the handlers read simulationResults and lastSimulationParams into
\* a file or the prompt text and assign to no global and to no element of the
\* buffer.
ReadResults ==
    /\ simulationResults # <<>>
    /\ UNCHANGED vars

\* ------------------------------------------------------------ reverse driver
\* The validation of runImpliedSimulation
ReverseNumbersValid(params) ==
    \A v \in {params.gMin, params.gMode, params.gMax, params.debt, params.cash,
              params.shares, params.currentPrice, params.iterations} : ~isNaN(v)

\* EV_market = currentPrice * shares + (debt - cash)
MarketEV(params) ==
    XAdd(XMul(params.currentPrice, params.shares, 1), XSub(params.debt, params.cash))

\* Variant: the reverse driver has no safety check.
EVNeverRejected(params) == FALSE

\* The safety check: EV_market <= 0
EVRejected(params) == XLe(MarketEV(params), Fin(0))

\* Draws per trial of the reverse loop
ReverseDrawsPerTrial(params) == IF params.rFixedCheck THEN 1 ELSE 2

\* The (g, r) of the reverse trial that starts after k draws of this chunk: r first
ReverseSample(params, seeded, a, us, k) ==
    [r |-> IF params.rFixedCheck THEN params.rFixed
           ELSE triRandom(params.rMin, params.rMode, params.rMax,
                          Deviate(seeded, a, us, k + 1)),
     g |-> triRandom(params.gMin, params.gMode, params.gMax,
                     Deviate(seeded, a, us, k + ReverseDrawsPerTrial(params)))]

\* Implied FCF = EV_market * (r - g)
ImpliedFcf(EV_market, g, r) == XMul(EV_market, XSub(r, g), RateScale)
\* Implied g = r - fcf0 / EV_market
ImpliedG(EV_market, fcf0, r) == XSub(r, XDiv(fcf0, EV_market, RateScale))

\* Trial i (0-based) of the reverse loop, for its sampled pair t
ReverseTrial(params, loc, acc, i, t) ==
    [k |-> acc.k + ReverseDrawsPerTrial(params),
     trials |-> Append(acc.trials, t),
     fcf |-> [acc.fcf EXCEPT ![i + 1] = ImpliedFcf(loc.EV_market, t.g, t.r)],
     g |-> [acc.g EXCEPT ![i + 1] = ImpliedG(loc.EV_market, loc.fcf0, t.r)]]

RECURSIVE ReverseTrials(_, _, _, _, _, _)
\* The trials i .. end-1 of one chunk of the reverse loop
ReverseTrials(params, loc, us, i, end, acc) ==
    IF i >= end THEN acc
    ELSE ReverseTrials(params, loc, us, i + 1, end,
           ReverseTrial(params, loc, acc, i,
                        ReverseSample(params, loc.seeded, loc.a, us, acc.k)))

\* const end = Math.min(processed + chunkSize, params.iterations)
ReverseChunkEnd(params, loc) ==
    ChunkEnd(loc.processed, impliedChunkSize \div TrialUnit, params.iterations.v)

\* The locals, the history and the progress bar after a chunk that ended at end
ReverseAfterChunk(params, loc, end, acc) ==
    [loc |-> [loc EXCEPT !.impliedFcfSamples = acc.fcf, !.impliedGSamples = acc.g,
                         !.a = IF loc.seeded THEN StateAfter(@, acc.k) ELSE @,
                         !.draws = @ + acc.k,
                         !.processed = end],
     trials |-> acc.trials,
     pct |-> ProgressPct(end, params.iterations.v)]

\* One pass of the reverse loop
ReverseChunk(params, loc, trials, us) ==
    ReverseAfterChunk(params, loc, ReverseChunkEnd(params, loc),
        ReverseTrials(params, loc, us, loc.processed, ReverseChunkEnd(params, loc),
                      [fcf |-> loc.impliedFcfSamples, g |-> loc.impliedGSamples,
                       k |-> 0, trials |-> trials]))

\* The locals of runImpliedSimulation when the loop is reached
ReverseStart(id, params) ==
    [pc |-> "running", params |-> id,
     fcf0 |-> calcFcf0(params.cfoInputs, params.cfiInputs, params.fcfMethod),
     EV_market |-> MarketEV(params),
     seeded |-> SeededRun(params),
     a |-> InitialState(params),
     draws |-> 0,
     impliedFcfSamples |-> [i \in 1..params.iterations.v |-> Fin(0)],
     impliedGSamples |-> [i \in 1..params.iterations.v |-> Fin(0)],
     processed |-> 0]

\* Variant: arr.sort() without the copy, which sorts arr itself.
SortInPlace(arr) == [sorted |-> SortAsc(arr), original |-> SortAsc(arr)]

\* arr.slice().sort(): the sorted copy, and arr as the call leaves it
SortedCopy(arr) == [sorted |-> SortAsc(arr), original |-> arr]

\* A call of runImpliedSimulation that returns (or throws) before the loop
ReverseRejected(pc) ==
    /\ rev' = RevIdle(pc)
    /\ UNCHANGED <<family, probe, form, fwd, uiVars, fwdOut, revOut, fwdTrials, revTrials,
                   published, abortRequested>>

\* The reverse run is suspended at await sleep(0) after the pass c.  The button
\* was disabled and the indicator shown before the first pass; a later pass
\* writes only the bar's value.
ReverseSuspend(c) ==
    /\ rev' = c.loc
    /\ revTrials' = c.trials
    /\ progressValue' = c.pct
    /\ impliedBtnDisabled' = TRUE
    /\ progressHidden' = (rev.pc = "running" /\ progressHidden)
    /\ UNCHANGED revOut

\* One pass of the reverse loop, up to the await
ReversePass(params, loc, trials) ==
    \E us \in ChunkDeviates(loc.seeded,
                (ReverseChunkEnd(params, loc) - loc.processed)
                * ReverseDrawsPerTrial(params)) :
      ReverseSuspend(ReverseChunk(params, loc, trials, us))

\* The statistics, the global, the charts and the heatmap for the two arrays
\* after their sorted copies were taken.
ReversePublish(loc, fcf, g) ==
    /\ impliedResults' =
         [params |-> loc.params,
          fcfSamples |-> fcf.original,
          gSamples |-> g.original,
          fcfStats |-> getStats(fcf.sorted),
          gStats |-> getStats(g.sorted)]
    /\ impliedDisplay' = [params |-> loc.params, fcfArr |-> fcf.original,
                          gArr |-> g.original]

\* The reverse loop has ended: the results, then the finally block.
ReverseFinish(loc, trials) ==
    /\ ReversePublish(loc, SortedCopy(loc.impliedFcfSamples), SortedCopy(loc.impliedGSamples))
    /\ revTrials' = trials
    /\ rev' = RevIdle("completed")
    /\ impliedBtnDisabled' = FALSE
    /\ progressHidden' = TRUE

\* while (processed < params.iterations): the next pass, or the end of the loop
ReverseLoop(params, loc, trials) ==
    IF loc.processed < params.iterations.v
    THEN ReversePass(params, loc, trials)
    ELSE /\ ReverseFinish(loc, trials)
         /\ UNCHANGED progressValue

\* runImpliedSimulation() for the form id with fields params, up to its first
\* await or to its return.
runImpliedSimulation(id, params) ==
    IF ~ReverseNumbersValid(params) THEN ReverseRejected("alertNumbers")
    ELSE IF XLt(params.iterations, Fin(0)) THEN ReverseRejected("crashed")
    ELSE IF EVRejected(params) THEN ReverseRejected("alertEV")
    ELSE /\ ReverseLoop(params, ReverseStart(id, params), <<>>)
         /\ UNCHANGED <<family, probe, form, fwd, runBtnDisabled, resetBtnDisabled, warnings,
                        fwdOut, fwdTrials, published, abortRequested>>

\* A click on runImpliedBtn.
RevClick ==
    /\ ~impliedBtnDisabled
    /\ runImpliedSimulation(form, getInputs)

\* The timer of the reverse run's sleep(0) fires.
RevResume ==
    /\ rev.pc = "running"
    /\ ReverseLoop(Profile(rev.params), rev, revTrials)
    /\ UNCHANGED <<family, probe, form, fwd, runBtnDisabled, resetBtnDisabled, warnings,
                   fwdOut, fwdTrials, published, abortRequested>>

\* ------------------------------------------------------------ specification
Next ==
    \/ EditForm
    \/ ResetInputs
    \/ ReadResults
    \/ FwdClick
    \/ FwdResume
    \/ RequestAbort
    \/ RevClick
    \/ RevResume

Spec == Init /\ [][Next]_vars

\* The program when the browser runs every timer callback that is due: a run
\* suspended at await sleep(0) is resumed (setTimeout(resolve, 0)).  The
\* sessions are those of two families of forms: a seeded and an unseeded run of
\* fixed discount rate, and a seeded run of triangular discount rate.
LiveInit ==
    /\ family \in {{"quick", "unseeded"}, {"tri"}}
    /\ form \in family
    /\ PageLoaded
    /\ probe = NoProbe(<<>>)

\* Weak fairness of the two timer callbacks.  A callback is enabled exactly
\* while its run is suspended (pc = "running"), so WF_vars(FwdResume) is written
\* with that state predicate in the place of ENABLED <<FwdResume>>_vars, and
\* WF_vars(RevResume) likewise.
TimersFire ==
    /\ []<>(fwd.pc # "running") \/ []<><<FwdResume>>_vars
    /\ []<>(rev.pc # "running") \/ []<><<RevResume>>_vars

LiveSpec == LiveInit /\ [][Next]_vars /\ TimersFire

\* ------------------------------------------------------------ the statistics functions by themselves
\* percentile and percentileRank are defined by script.js and called by no
\* handler.  This specification calls them directly: on every ascending buffer
\* of up to MaxProbeLen of the values below, with every p and value below.
ProbeValues == {Fin(-30), Fin(0), Fin(40), Fin(100)}
SortedBuffers ==
    {arr \in UNION {[1..n -> ProbeValues] : n \in 0..MaxProbeLen} :
       \A i \in 1..(Len(arr) - 1) : XLe(arr[i], arr[i + 1])}
\* p as a pair <<numerator, denominator>>: the order-statistic boundaries k / (n - 1)
\* and the twentieths
Probabilities == UNION {{<<k, d>> : k \in 0..d} : d \in (1..MaxProbeLen) \cup {20}}
ProbeArguments == ProbeValues \cup {Fin(-31), Fin(1), Fin(101), NaN, PInf, NInf}

programVars == <<family, form, fwd, rev, uiVars, fwdOut, revOut, fwdTrials, revTrials,
                 published, abortRequested>>

StatInit ==
    /\ family = {"base"}
    /\ form = "base"
    /\ PageLoaded
    /\ probe \in {NoProbe(arr) : arr \in SortedBuffers}

\* A call percentile(sortedArr, p)
CallPercentile ==
    /\ \E p \in Probabilities :
         probe' = [probe EXCEPT !.last = "percentile", !.p = p,
                                !.pct = percentile(probe.sortedArr, p),
                                !.chained = FALSE]
    /\ UNCHANGED programVars

\* A call percentileRank(sortedArr, value), for a value from the list or for
\* the percentile the call before returned
CallPercentileRank ==
    /\ \E value \in ProbeArguments \cup (IF probe.last = "percentile" THEN {probe.pct} ELSE {}) :
         probe' = [probe EXCEPT !.last = "percentileRank", !.value = value,
                                !.rank = percentileRank(probe.sortedArr, value),
                                !.chained = (probe.last = "percentile" /\ value = probe.pct)]
    /\ UNCHANGED programVars

StatNext ==
    \/ CallPercentile
    \/ CallPercentileRank

StatSpec == StatInit /\ [][StatNext]_vars

\* ------------------------------------------------------------ the sampler by itself
\* This specification calls triRandom directly: the arguments are any
\* min <= mode <= max of the rates below (also min = mode = max) and any deviate
\* u / UScale.
TriValues == {Fin(-200), Fin(0), Fin(300), Fin(500), Fin(1200)}

SamplerInit ==
    /\ family = {"base"}
    /\ form = "base"
    /\ PageLoaded
    /\ \E min, mode, max \in TriValues : \E u \in 0..(UScale - 1) :
         /\ XLe(min, mode)
         /\ XLe(mode, max)
         /\ probe = [last |-> "none", min |-> min, mode |-> mode, max |-> max,
                     u |-> u, sample |-> Fin(0)]

\* The call triRandom(min, mode, max, randomFunc) where randomFunc returns u / UScale
CallTriRandom ==
    /\ probe.last = "none"
    /\ probe' = [probe EXCEPT !.last = "triRandom",
                              !.sample = triRandom(probe.min, probe.mode, probe.max, probe.u)]
    /\ UNCHANGED programVars

SamplerSpec == SamplerInit /\ [][CallTriRandom]_vars

\* ------------------------------------------------------------ the seed by itself
\* This specification runs the seeding code of the two drivers directly: on any
\* seed string of at most MaxSeedLen characters ('0', 'z', a kana, the largest
\* UTF-16 code unit), and one pass of its loop body on a 32-bit seedInt of any
\* sign and size.
SeedInit ==
    /\ family = {"base"}
    /\ form = "base"
    /\ PageLoaded
    /\ \E n \in 0..MaxSeedLen : \E str \in [1..n -> {48, 122, 12354, 65535}] :
       \E h \in {<<0, 0>>, <<0, 1>>, <<1023, 65535>>, <<2048, 0>>, <<32767, 65535>>,
                 <<32768, 0>>, <<65535, 65535>>} :
         /\ n > 0 => h = <<0, 0>>
         /\ probe = [last |-> "none", str |-> str, h |-> h, code |-> 0,
                     seeded |-> FALSE, seedInt |-> <<0, 0>>]

\* if (params.randomSeed) { ... rng = mulberry32(seedInt) }: whether the run is
\* seeded, and the seed integer
CallSeedInt ==
    /\ probe.last = "none"
    /\ probe' = [probe EXCEPT !.last = "seed",
                              !.seeded = SeededRun([randomSeed |-> probe.str]),
                              !.seedInt = InitialState([randomSeed |-> probe.str])]
    /\ UNCHANGED programVars

\* One pass of the loop body, for seedInt = probe.h and a character
CallHashStep ==
    /\ probe.last = "none"
    /\ \E code \in {48, 122, 12354, 65535} :
         probe' = [probe EXCEPT !.last = "step", !.code = code,
                                !.seedInt = HashFrom(<<code>>, 1, probe.h)]
    /\ UNCHANGED programVars

SeedNext ==
    \/ CallSeedInt
    \/ CallHashStep

SeedSpec == SeedInit /\ [][SeedNext]_vars

\* ------------------------------------------------------------ properties
\* The loop's epsilon 0.0001, in rate units
Epsilon == Fin(RateScale \div 10000)

\* A trial whose pair has r - g > 0.0001 and whose price is finite
ValidTrial(t) == XGt(XSub(t.r, t.g), Epsilon) /\ IsFin(t.price)
ValidTrials(trials) == SelectSeq(trials, ValidTrial)
PricesOf(trials) == [i \in 1..Len(trials) |-> trials[i].price]
NoTrialValid(trials) == \A i \in 1..Len(trials) : ~ValidTrial(trials[i])

\* The ways runSimulation returns before its UI setup
ForwardAlerts == {"alertNumbers", "alertShares", "declined", "alertGRange", "alertRRange"}

\* min <= mode <= max is violated for g, or for a triangular r, or shares <= 0
OrderingViolated(params) ==
    \/ XGt(params.gMin, params.gMode)
    \/ XGt(params.gMode, params.gMax)
    \/ ~params.rFixedCheck /\ (XGt(params.rMin, params.rMode) \/ XGt(params.rMode, params.rMax))
    \/ XLe(params.shares, Fin(0))

\* The discount-rate fields the run draws from are finite
DiscountFieldsFinite(params) ==
    IF params.rFixedCheck THEN IsFin(params.rFixed)
    ELSE IsFin(params.rMin) /\ IsFin(params.rMode) /\ IsFin(params.rMax)

\* The cash-flow fields of the mode are finite
CashFlowFieldsFinite(params) ==
    IF params.calcMode = "future"
    THEN \A i \in 1..Len(params.futureFcfInputs) : IsFin(params.futureFcfInputs[i])
    ELSE /\ \A i \in 1..Len(params.cfoInputs) : IsFin(params.cfoInputs[i])
         /\ \A i \in 1..Len(params.cfiInputs) : IsFin(params.cfiInputs[i])

\* Every numeric field the forward run uses is finite
ForwardFieldsFinite(params) ==
    /\ \A v \in {params.gMin, params.gMode, params.gMax, params.debt, params.cash,
                 params.shares, params.currentPrice, params.iterations} : IsFin(v)
    /\ DiscountFieldsFinite(params)
    /\ CashFlowFieldsFinite(params)

\* C1: while a forward run is in progress, the filled part of the sample buffer
\* is exactly the prices of the trials so far whose pair had r - g > 1e-4 and
\* whose price is finite, in trial order: a trial with r - g <= 1e-4 or with a
\* NaN or infinite price appended nothing.  The published buffer holds only
\* finite prices.
C1_BufferHoldsValidPrices ==
    /\ fwd.pc = "running" =>
         /\ fwd.validCount = Len(ValidTrials(fwdTrials))
         /\ SubSeq(fwd.pricesBuffer, 1, fwd.validCount) = PricesOf(ValidTrials(fwdTrials))
    /\ \A i \in 1..Len(simulationResults) : IsFin(simulationResults[i])

\* A run in progress has stored some prices and skipped some trials.
C1_Witness ==
    /\ fwd.pc = "running"
    /\ 0 < fwd.validCount
    /\ fwd.validCount < Len(fwdTrials)

\* C2: when a forward run ends after its last chunk and none of its trials was
\* valid, it ends at the zero-valid alert and the globals, the chart and the
\* sensitivity table are what they were before.
C2_ZeroValidPublishesNothing ==
    [][(fwd.pc = "running" /\ fwd'.pc # "running" /\ NoTrialValid(fwdTrials'))
         => (fwd'.pc = "zeroValid" /\ UNCHANGED fwdOut)]_vars

\* A run of every trial of the form with g in [0.08, 0.12] and r = 0.05 has
\* ended at the zero-valid alert, and the results of the run before it stand.
C2_Witness ==
    /\ fwd.pc = "zeroValid"
    /\ Len(fwdTrials) = Profile("zero").iterations.v
    /\ Len(fwdTrials) > 0
    /\ lastSimulationParams.params = "quick"
    /\ simulationResults # <<>>

\* C3: consecutive completed forward runs of one form with a non-empty seed
\* sampled the same (g, r) pairs and published the same buffer and the same
\* summary, whatever steps were taken between their chunks.
C3_SeededRunsRepeat ==
    published.runs = 2 => published.first = published.latest

\* A seeded form has completed twice and a reverse run is between two chunks.
C3_Witness ==
    /\ published.runs = 2
    /\ fwd.pc = "completed"
    /\ rev.pc = "running"
    /\ 0 < rev.processed
    /\ rev.params = published.params

\* C4: a click on the run button with a form that violates min <= mode <= max
\* for g or for a triangular r, or has shares <= 0, returns at an alert: the
\* buttons and the progress bar are untouched, no deviate is drawn, and the
\* globals and the chart are unchanged.
C4_OrderingRejectedBeforeRun ==
    [][(FwdClick /\ OrderingViolated(getInputs))
         => /\ fwd'.pc \in ForwardAlerts
            /\ fwd'.draws = 0
            /\ UNCHANGED <<runBtnDisabled, resetBtnDisabled, progressHidden, progressValue,
                           fwdOut, fwdTrials, published>>]_vars

\* A form with a triangular r out of order was rejected, and the results of
\* the run before it stand.
C4_Witness ==
    /\ fwd.pc = "alertRRange"
    /\ form = "rbad"
    /\ lastSimulationParams.params = "quick"
    /\ simulationResults # <<>>

\* C5: a forward run that is sampling has only finite numbers in the fields it
\* uses, the active discount-rate fields included.
C5_NonFiniteFieldsRejected ==
    fwd.pc = "running" => ForwardFieldsFinite(Profile(fwd.params))

\* C6: a click on either run button with a trial count <= 0 returns at a
\* validation alert: the run does not start, does not throw, and is not
\* reported as a run without valid trials.
C6_TrialCountRejected ==
    [][/\ (FwdClick /\ XLe(getInputs.iterations, Fin(0))) => fwd'.pc \in ForwardAlerts
       /\ (RevClick /\ XLe(getInputs.iterations, Fin(0))) => rev'.pc \in {"alertNumbers", "alertEV"}
      ]_vars

\* C7: a click on the reverse run button with EV_market <= 0 returns before
\* the loop: no trial is sampled, no deviate is drawn, the button and the
\* progress bar are untouched and the implied results are unchanged.
C7_MarketEVRejectedBeforeLoop ==
    [][(RevClick /\ XLe(MarketEV(getInputs), Fin(0)))
         => /\ rev'.pc \in {"alertNumbers", "crashed", "alertEV"}
            /\ rev'.draws = 0
            /\ UNCHANGED <<impliedBtnDisabled, progressHidden, progressValue, revOut,
                           revTrials>>]_vars

\* A form with EV_market <= 0 was rejected, and the implied results of the
\* reverse run before it stand.
C7_Witness ==
    /\ rev.pc = "alertEV"
    /\ form = "evneg"
    /\ impliedResults.params = "quick"

\* C8: a reverse run that is sampling has a form with min <= mode <= max for g
\* and for a triangular r, shares > 0, and finite discount-rate and base
\* cash-flow fields.
C8_ReverseInputsRejected ==
    rev.pc = "running" =>
      /\ ~OrderingViolated(Profile(rev.params))
      /\ DiscountFieldsFinite(Profile(rev.params))
      /\ IsFin(rev.fcf0)

\* C9: after a completed reverse run, the two stored sequences have one entry
\* per trial, entry i of each comes from the (g, r) of trial i, and the arrays
\* handed to the heatmap are those sequences.
C9_ReverseSamplesPaired ==
    rev.pc = "completed" =>
      /\ Len(impliedResults.fcfSamples) = Profile(impliedResults.params).iterations.v
      /\ Len(impliedResults.gSamples) = Profile(impliedResults.params).iterations.v
      /\ Len(revTrials) = Profile(impliedResults.params).iterations.v
      /\ \A i \in 1..Len(revTrials) :
           /\ impliedResults.fcfSamples[i]
                = XMul(MarketEV(Profile(impliedResults.params)),
                       XSub(revTrials[i].r, revTrials[i].g), RateScale)
           /\ impliedResults.gSamples[i]
                = XSub(revTrials[i].r,
                       XDiv(calcFcf0(Profile(impliedResults.params).cfoInputs,
                                     Profile(impliedResults.params).cfiInputs,
                                     Profile(impliedResults.params).fcfMethod),
                            MarketEV(Profile(impliedResults.params)), RateScale))
      /\ impliedDisplay.fcfArr = impliedResults.fcfSamples
      /\ impliedDisplay.gArr = impliedResults.gSamples

\* A reverse run of the largest trial count has completed, and its implied-FCF
\* sequence is not in ascending order.
C9_Witness ==
    /\ rev.pc = "completed"
    /\ Len(impliedResults.fcfSamples) = MaxTrials
    /\ impliedResults.fcfSamples # SortAsc(impliedResults.fcfSamples)

\* C10: once the caller has asked to cancel a run that is Running, the run
\* processes no further chunk and publishes nothing.
C10_AbortStopsRun ==
    [][(abortRequested /\ fwd.pc = "running")
         => (fwd'.processed = fwd.processed /\ UNCHANGED fwdOut)]_vars

\* C11: the forward driver works in chunks of chunkSize trials.  Every pass of the
\* loop processes at least one and at most chunkSize trials, exactly chunkSize
\* unless it reaches the trial count, ends suspended at the await (also the last
\* pass), and leaves the progress bar at the rounded percentage of the processed
\* count it reached; the step that leaves the loop processes no trial.
C11_ForwardChunks ==
    [][LET before == IF fwd.pc = "running" THEN fwd.processed ELSE 0
           trialsBefore == IF fwd.pc = "running" THEN Len(fwdTrials) ELSE 0
       IN /\ (fwd'.pc = "running" /\ fwd' # fwd) =>
               /\ fwd'.processed - before \in 1..(chunkSize \div TrialUnit)
               /\ \/ fwd'.processed - before = chunkSize \div TrialUnit
                  \/ fwd'.processed = Profile(fwd'.params).iterations.v
               /\ Len(fwdTrials') - trialsBefore = fwd'.processed - before
               /\ progressValue'
                    = ProgressPct(fwd'.processed, Profile(fwd'.params).iterations.v)
          /\ (fwd.pc = "running" /\ fwd'.pc # "running") =>
               /\ fwd.processed = Profile(fwd.params).iterations.v
               /\ fwdTrials' = fwdTrials]_vars
\* The run is suspended after a last chunk that was shorter than chunkSize.
C11_Witness ==
    /\ fwd.pc = "running"
    /\ fwd.processed = Profile(fwd.params).iterations.v
    /\ fwd.processed > chunkSize \div TrialUnit
    /\ fwd.processed % (chunkSize \div TrialUnit) # 0
    /\ Len(fwdTrials) = fwd.processed
    /\ progressValue = 100

\* C12: the reverse driver keeps the forward driver's chunking contract.  Every
\* pass of its loop processes chunkSize trials, the forward driver's chunk,
\* unless it reaches the trial count; it ends suspended at the await and leaves
\* the progress bar at the rounded percentage of the processed count.
C12_ReverseChunksAsForward ==
    [][LET before == IF rev.pc = "running" THEN rev.processed ELSE 0
       IN (rev'.pc = "running" /\ rev' # rev) =>
            /\ \/ rev'.processed - before = chunkSize \div TrialUnit
               \/ rev'.processed = Profile(rev'.params).iterations.v
            /\ progressValue'
                 = ProgressPct(rev'.processed, Profile(rev'.params).iterations.v)]_vars

\* C13: a forward run that began sampling leaves nothing of an earlier run in
\* the stored summary and buffer.  When it completes they are its own; when it
\* ends with no valid trial they are empty.
C13_EarlierResultsSuperseded ==
    [][(fwd.pc = "running" /\ fwd'.pc \in {"completed", "zeroValid"}) =>
         IF fwd'.pc = "completed"
         THEN /\ lastSimulationParams'.params = fwd.params
              /\ simulationResults' = SortAsc(PricesOf(ValidTrials(fwdTrials')))
         ELSE /\ lastSimulationParams' = NoParams
              /\ simulationResults' = <<>>]_vars

\* C14: the cell of the sensitivity table at (gMode, rMode), or (gMode, rFixed)
\* when the discount rate is fixed, is the mode scenario price of the summary.
\* The two are undefined together, exactly when r - g <= 0, in historical and in
\* forecast mode.
C14_ModeCellIsModePrice ==
    display # NoDisplay =>
      LET params == Profile(display.params)
          r == IF params.rFixedCheck THEN params.rFixed ELSE params.rMode
          column == IF params.rFixedCheck THEN 1 ELSE 2
      IN /\ lastSimulationParams.params = display.params
         /\ display.sensitivity[2][column] = lastSimulationParams.modePrice
         /\ isNaN(lastSimulationParams.modePrice) <=> XLe(XSub(r, params.gMode), Fin(0))
\* A completed forecast-mode run with a triangular discount rate.
C14_Witness ==
    /\ display # NoDisplay
    /\ Profile(display.params).calcMode = "future"
    /\ ~Profile(display.params).rFixedCheck
    /\ IsFin(display.sensitivity[2][2])
    /\ display.sensitivity[2][2] = lastSimulationParams.modePrice

\* C15: forward/reverse round trip in historical mode.  When the form of a
\* completed reverse run is the form of the completed forward run with the
\* forward price P as current price, and the form allows one (g, r) only, every
\* implied cash flow is the forward run's base cash flow and every implied
\* growth rate is g.
C15_RoundTripRecoversInputs ==
    (/\ lastSimulationParams # NoParams
     /\ impliedResults # NoParams
     /\ LET forward == Profile(lastSimulationParams.params)
        IN /\ forward.calcMode = "historical"
           /\ forward.rFixedCheck
           /\ forward.gMin = forward.gMode
           /\ forward.gMode = forward.gMax
           /\ \A i \in 1..Len(simulationResults) :
                Profile(impliedResults.params)
                  = [forward EXCEPT !.currentPrice = simulationResults[i]])
    => \A i \in 1..Len(impliedResults.fcfSamples) :
         /\ impliedResults.fcfSamples[i] = lastSimulationParams.fcf0
         /\ impliedResults.gSamples[i] = Profile(impliedResults.params).gMode

\* C16: the median, p05 and p95 of a completed forward run, and those of the
\* reverse run's statistics, are percentile(sorted, p) at p = 0.5, 0.05 and 0.95.
C16_PercentilesInterpolate ==
    /\ lastSimulationParams # NoParams =>
         /\ lastSimulationParams.medianPrice = percentile(simulationResults, <<1, 2>>)
         /\ lastSimulationParams.p05 = percentile(simulationResults, <<1, 20>>)
         /\ lastSimulationParams.p95 = percentile(simulationResults, <<19, 20>>)
    /\ impliedResults # NoParams =>
         /\ impliedResults.fcfStats.median
              = percentile(SortAsc(impliedResults.fcfSamples), <<1, 2>>)
         /\ impliedResults.fcfStats.p05
              = percentile(SortAsc(impliedResults.fcfSamples), <<1, 20>>)
         /\ impliedResults.fcfStats.p95
              = percentile(SortAsc(impliedResults.fcfSamples), <<19, 20>>)
         /\ impliedResults.gStats.median
              = percentile(SortAsc(impliedResults.gSamples), <<1, 2>>)
         /\ impliedResults.gStats.p05
              = percentile(SortAsc(impliedResults.gSamples), <<1, 20>>)
         /\ impliedResults.gStats.p95
              = percentile(SortAsc(impliedResults.gSamples), <<19, 20>>)

\* The number of elements of arr that are <= value, by a full scan
CountLe(arr, value) == Cardinality({i \in 1..Len(arr) : XLe(arr[i], value)})

\* C17: the probability-above value of a completed forward run is 100 times the
\* share of the samples strictly greater than the current price, and for the
\* run's sorted buffer and every threshold at, next to, below and above its
\* values the binary search returns the number of samples <= the threshold
\* that a linear scan counts.
C17_ProbabilityAboveCounts ==
    lastSimulationParams # NoParams =>
      LET n == Len(simulationResults)
          threshold == Profile(lastSimulationParams.params).currentPrice
          thresholds == UNION {{Fin(simulationResults[i].v - 1), simulationResults[i],
                                Fin(simulationResults[i].v + 1)} : i \in 1..n}
      IN /\ lastSimulationParams.prob
              = Percent(Cardinality({i \in 1..n : XGt(simulationResults[i], threshold)}), n)
         /\ \A value \in thresholds :
              firstGreaterIndex(simulationResults, value) = CountLe(simulationResults, value)
\* A completed run with equal prices in its buffer and the current price
\* strictly inside it.
C17_Witness ==
    /\ lastSimulationParams # NoParams
    /\ \E i \in 1..(Len(simulationResults) - 1) : simulationResults[i] = simulationResults[i + 1]
    /\ CountLe(simulationResults, Profile(lastSimulationParams.params).currentPrice)
         \in 1..(Len(simulationResults) - 1)

\* C18: the percentile ranks of the summary.  The rank reported for the current
\* price and for the mode scenario price is 100 times the share of the samples
\* <= the value when the value is finite, and NaN when it is not.
C18_RanksOfNonFiniteAreNaN ==
    lastSimulationParams # NoParams =>
      LET n == Len(simulationResults)
          currentPrice == Profile(lastSimulationParams.params).currentPrice
          modePrice == lastSimulationParams.modePrice
      IN /\ lastSimulationParams.currentPercentile
              = IF n = 0 \/ ~isFinite(currentPrice) THEN NaN
                ELSE Percent(CountLe(simulationResults, currentPrice), n)
         /\ lastSimulationParams.modePercentile
              = IF n = 0 \/ ~isFinite(modePrice) THEN NaN
                ELSE Percent(CountLe(simulationResults, modePrice), n)

\* C19 as stated: the percentile rank of percentile(buf, p) is about 100 p,
\* within 100 / n of it, and exactly 100 p when p = k / (n - 1) for an integer k.
C19_RankOfPercentileIsP ==
    (probe.last = "percentileRank" /\ probe.chained /\ Len(probe.sortedArr) > 0) =>
      LET n == Len(probe.sortedArr)
          p == probe.p
      IN /\ (n > 1 /\ ((n - 1) * p[1]) % p[2] = 0) => probe.rank = Percent(p[1], p[2])
         /\ (probe.rank.v - Percent(p[1], p[2]).v)
              \in (-(10000 \div n) - 1) .. ((10000 \div n) + 1)

\* C19 as amended: the percentile rank of percentile(buf, p) is 100 times the
\* share of the samples <= that percentile.  When p = k / (n - 1) it is at
\* least 100 (k + 1) / n, at p = 1 it is 100, and for a buffer of distinct
\* values the share is within 1 / n of p.
C19_RankOfPercentileCounts ==
    (probe.last = "percentileRank" /\ probe.chained /\ Len(probe.sortedArr) > 0) =>
      LET n == Len(probe.sortedArr)
          p == probe.p
          count == CountLe(probe.sortedArr, probe.pct)
      IN /\ probe.rank = Percent(count, n)
         /\ (n > 1 /\ ((n - 1) * p[1]) % p[2] = 0) =>
               XLe(Percent((((n - 1) * p[1]) \div p[2]) + 1, n), probe.rank)
         /\ p[1] = p[2] => probe.rank = Fin(10000)
         /\ (\A i \in 1..(n - 1) : probe.sortedArr[i] # probe.sortedArr[i + 1]) =>
               (count * p[2]) - (n * p[1]) \in (-p[2])..p[2]
\* The rank of the median of three distinct values: two thirds.
C19_Witness ==
    /\ probe.last = "percentileRank"
    /\ probe.chained
    /\ Len(probe.sortedArr) = 3
    /\ probe.sortedArr[1] # probe.sortedArr[2]
    /\ probe.sortedArr[2] # probe.sortedArr[3]
    /\ probe.p = <<1, 2>>
    /\ probe.pct = probe.sortedArr[2]
    /\ probe.rank = Percent(2, 3)

\* C20: percentile is monotone in p and stays inside the buffer.  Every call on
\* a non-empty ascending buffer returns a value between the first and the last
\* element, the first at p = 0 and the last at p = 1, and a call with a p at
\* least the p of the call before returns at least what that call returned.
C20_PercentileMonotone ==
    [][probe'.last = "percentile" =>
         LET arr == probe'.sortedArr
             n == Len(probe'.sortedArr)
         IN /\ n > 0 =>
                 /\ XLe(arr[1], probe'.pct)
                 /\ XLe(probe'.pct, arr[n])
                 /\ probe'.p[1] = 0 => probe'.pct = arr[1]
                 /\ probe'.p[1] = probe'.p[2] => probe'.pct = arr[n]
            /\ (probe.last = "percentile"
                /\ probe.p[1] * probe'.p[2] <= probe'.p[1] * probe.p[2]) =>
                  XLe(probe.pct, probe'.pct)]_vars
\* An interpolated value strictly between the first two of three elements.
C20_Witness ==
    /\ probe.last = "percentile"
    /\ Len(probe.sortedArr) = 3
    /\ probe.p = <<1, 20>>
    /\ XLt(probe.sortedArr[1], probe.pct)
    /\ XLt(probe.pct, probe.sortedArr[2])

\* C21: the triangular sampler stays in range.  For min <= mode <= max and a
\* deviate u in [0, 1) the sample is a number in [min, max]: in [min, mode] when
\* u < (mode - min) / (max - min) and in [mode, max] otherwise; when
\* min = mode = max it is that constant, not NaN.
C21_SampleInRange ==
    probe.last = "triRandom" =>
      LET lowerLeg == /\ probe.max.v > probe.min.v
                      /\ probe.u * (probe.max.v - probe.min.v)
                           < UScale * (probe.mode.v - probe.min.v)
      IN /\ IsFin(probe.sample)
         /\ XLe(probe.min, probe.sample)
         /\ XLe(probe.sample, probe.max)
         /\ lowerLeg => XLe(probe.sample, probe.mode)
         /\ ~lowerLeg => XLe(probe.mode, probe.sample)
         /\ probe.min = probe.max => probe.sample = probe.min
\* A call on a degenerate triangle returned the constant.
C21_Witness ==
    /\ probe.last = "triRandom"
    /\ probe.min = Fin(500)
    /\ probe.max = Fin(500)
    /\ probe.u > 0
    /\ probe.sample = Fin(500)

\* C22: a published buffer is never written again.  simulationResults changes
\* only when a forward run that was suspended ends and stores its own buffer,
\* sorted, or when the reset button empties it: no pass of a later forward run,
\* no reverse run, no download and no prompt changes its contents, length or
\* order.
C22_PublishedBufferFrozen ==
    [][simulationResults' # simulationResults =>
         \/ /\ fwd.pc = "running"
            /\ fwd'.pc = "completed"
            /\ simulationResults' = SortAsc(SubSeq(fwd.pricesBuffer, 1, fwd.validCount))
         \/ /\ form' = "blank"
            /\ simulationResults' = <<>>]_vars
\* A later forward run of other inputs has written to its own buffer while the
\* earlier run's buffer is still the published one, and a reverse run has run.
C22_Witness ==
    /\ simulationResults # <<>>
    /\ fwd.pc = "running"
    /\ fwd.validCount > 0
    /\ fwd.params # lastSimulationParams.params
    /\ SubSeq(fwd.pricesBuffer, 1, fwd.validCount) # simulationResults
    /\ rev.pc # "idle"

\* C23: the inputs of a run are those read when it was invoked.  A run keeps the
\* parameters, fcf0 and net debt it started with across every await; each of its
\* trials samples from those parameters' distributions (inside their ranges
\* when the ranges are numbers) and prices with them;
\* the summary, the mode price, the current price shown and the sensitivity
\* grid of a completed forward run are computed from them, whatever the form
\* holds by then.  The reverse run's trials likewise.
C23_InputsReadOnce ==
    [][/\ (fwd.pc # "running" /\ fwd'.pc = "running") => fwd'.params = form
       /\ (fwd.pc = "running" /\ fwd'.pc = "running") =>
            /\ fwd'.params = fwd.params
            /\ fwd'.fcf0 = fwd.fcf0
            /\ fwd'.netDebt = fwd.netDebt
       /\ (fwd.pc = "running" \/ fwd'.pc = "running") /\ fwdTrials' # fwdTrials =>
            LET params == Profile(IF fwd.pc = "running" THEN fwd.params ELSE form)
            IN \A i \in 1..Len(fwdTrials') :
                 /\ XLe(params.gMin, fwdTrials'[i].g) /\ XLe(fwdTrials'[i].g, params.gMax)
                 /\ IF params.rFixedCheck
                    THEN fwdTrials'[i].r = params.rFixed
                    ELSE IF IsFin(params.rMin) /\ IsFin(params.rMode) /\ IsFin(params.rMax)
                    THEN /\ XLe(params.rMin, fwdTrials'[i].r)
                         /\ XLe(fwdTrials'[i].r, params.rMax)
                    ELSE ~IsFin(fwdTrials'[i].r)
                 /\ fwdTrials'[i].price =
                      TrialPrice(params, ForwardFcf0(params),
                                 XSub(params.debt, params.cash),
                                 fwdTrials'[i].g, fwdTrials'[i].r)
       /\ (fwd.pc = "running" /\ fwd'.pc = "completed") =>
            LET params == Profile(fwd.params)
            IN /\ Len(fwdTrials') = params.iterations.v
               /\ lastSimulationParams'.params = fwd.params
               /\ lastSimulationParams'.fcf0 = ForwardFcf0(params)
               /\ lastSimulationParams'.modePrice =
                    calcModePrice(params, fwd.fcf0, fwd.netDebt)
               /\ lastSimulationParams'.currentPercentile =
                    Percent(firstGreaterIndex(simulationResults', params.currentPrice),
                            Len(simulationResults'))
               /\ display'.currentPrice = params.currentPrice
               /\ display'.sensitivity = SensitivityResults(fwd.fcf0, params)
       /\ (rev.pc # "running" /\ rev'.pc = "running") => rev'.params = form
       /\ (rev.pc = "running" /\ rev'.pc = "running") =>
            /\ rev'.params = rev.params
            /\ rev'.fcf0 = rev.fcf0
            /\ rev'.EV_market = rev.EV_market
       /\ (rev.pc = "running" /\ revTrials' # revTrials) =>
            LET params == Profile(rev.params)
            IN \A i \in 1..Len(revTrials') :
                 /\ XLe(params.gMin, revTrials'[i].g) /\ XLe(revTrials'[i].g, params.gMax)
                 /\ IF params.rFixedCheck
                    THEN revTrials'[i].r = params.rFixed
                    ELSE IF IsFin(params.rMin) /\ IsFin(params.rMode) /\ IsFin(params.rMax)
                    THEN /\ XLe(params.rMin, revTrials'[i].r)
                         /\ XLe(revTrials'[i].r, params.rMax)
                    ELSE ~IsFin(revTrials'[i].r)
       /\ (rev.pc = "running" /\ rev'.pc = "completed") =>
            /\ impliedResults'.params = rev.params
            /\ Len(impliedResults'.fcfSamples) = Profile(rev.params).iterations.v]_vars
\* A forward run is suspended after a pass and the form no longer holds the
\* fields it was started with.
C23_Witness ==
    /\ fwd.pc = "running"
    /\ fwd.processed > 0
    /\ fwd.processed < Profile(fwd.params).iterations.v
    /\ form # fwd.params
    /\ Profile(form).gMax # Profile(fwd.params).gMax

C25_RunsTerminate ==
    /\ [][/\ fwd'.pc = "running" /\ fwd' # fwd =>
               /\ fwd'.processed > (IF fwd.pc = "running" THEN fwd.processed ELSE 0)
               /\ fwd'.processed <= Profile(fwd'.params).iterations.v
               /\ fwd'.processed = Profile(fwd'.params).iterations.v
                    => progressValue' = 100
          /\ fwd.pc = "running" /\ fwd'.pc # "running" =>
               /\ fwd'.pc \in {"completed", "zeroValid"}
               /\ fwd.processed = Profile(fwd.params).iterations.v
          /\ rev'.pc = "running" /\ rev' # rev =>
               /\ rev'.processed > (IF rev.pc = "running" THEN rev.processed ELSE 0)
               /\ rev'.processed <= Profile(rev'.params).iterations.v
               /\ rev'.processed = Profile(rev'.params).iterations.v
                    => progressValue' = 100
          /\ rev.pc = "running" /\ rev'.pc # "running" =>
               /\ rev'.pc = "completed"
               /\ rev.processed = Profile(rev.params).iterations.v]_vars
    /\ (fwd.pc = "running") ~> (fwd.pc \in {"completed", "zeroValid"})
    /\ (rev.pc = "running") ~> (rev.pc = "completed")
\* A forward and a reverse run of more than one pass have both ended.
C25_Witness ==
    /\ fwd.pc \in {"completed", "zeroValid"}
    /\ rev.pc = "completed"
    /\ Len(fwdTrials) > chunkSize \div TrialUnit
    /\ Len(revTrials) > impliedChunkSize \div TrialUnit
    /\ progressValue = 100

\* C26: the counters and the buffer of a forward run.  While a run is suspended
\* 0 <= validCount <= processed <= trialCount and the buffer has trialCount
\* slots.  A pass never lowers validCount, leaves the slots written before as
\* they are, writes the prices it keeps to the next slots in trial order and
\* touches no slot after them.  The published buffer has validCount elements.
C26_CountersAndSlots ==
    /\ [](fwd.pc = "running" =>
            /\ 0 <= fwd.validCount
            /\ fwd.validCount <= fwd.processed
            /\ fwd.processed <= Profile(fwd.params).iterations.v
            /\ Len(fwd.pricesBuffer) = Profile(fwd.params).iterations.v)
    /\ [][/\ fwd'.pc = "running" /\ fwd' # fwd =>
               LET before == IF fwd.pc = "running" THEN fwd.validCount ELSE 0
                   done == IF fwd.pc = "running" THEN fwd.processed ELSE 0
                   kept == PricesOf(ValidTrials(SubSeq(fwdTrials', done + 1,
                                                       Len(fwdTrials'))))
               IN /\ Len(fwdTrials') = fwd'.processed
                  /\ fwd'.validCount = before + Len(kept)
                  /\ \A i \in 1..before : fwd'.pricesBuffer[i] = fwd.pricesBuffer[i]
                  /\ \A i \in 1..Len(kept) : fwd'.pricesBuffer[before + i] = kept[i]
                  /\ \A i \in (fwd'.validCount + 1)..Len(fwd'.pricesBuffer) :
                       fwd'.pricesBuffer[i] = Fin(0)
          /\ fwd.pc = "running" /\ fwd'.pc = "completed" =>
               Len(simulationResults') = fwd.validCount]_vars
\* A pass of a run that had already kept prices discarded a trial and kept a
\* later one.
C26_Witness ==
    /\ fwd.pc = "running"
    /\ fwd.validCount > 0
    /\ fwd.validCount < fwd.processed
    /\ \E i \in 1..(Len(fwdTrials) - 1) :
         ~ValidTrial(fwdTrials[i]) /\ ValidTrial(fwdTrials[i + 1])

\* C27: draws are consumed in trial order, whole trials at a time.  Whenever a
\* run is suspended after k trials it has taken exactly k draws (fixed discount
\* rate) or 2k draws (triangular), discarded trials included; in a seeded run
\* the generator is the seed's generator advanced by that many draws, and trial
\* i sampled from the draws of its own position: forward g from the first and r
\* from the second, reverse r from the first and g from the last.
C27_DrawsInTrialOrder ==
    /\ fwd.pc = "running" =>
         LET params == Profile(fwd.params)
             d == IF params.rFixedCheck THEN 1 ELSE 2
             a0 == SeedHash(params.randomSeed)
         IN /\ Len(fwdTrials) = fwd.processed
            /\ fwd.draws = fwd.processed * d
            /\ fwd.seeded =>
                 /\ fwd.a = StateAfter(a0, fwd.draws)
                 /\ \A i \in 1..fwd.processed :
                      /\ fwdTrials[i].g =
                           triRandom(params.gMin, params.gMode, params.gMax,
                                     WordToU(MulberryOut(StateAfter(a0, d * (i - 1) + 1))))
                      /\ ~params.rFixedCheck =>
                           fwdTrials[i].r =
                             triRandom(params.rMin, params.rMode, params.rMax,
                                       WordToU(MulberryOut(StateAfter(a0, d * i))))
    /\ rev.pc = "running" =>
         LET params == Profile(rev.params)
             d == IF params.rFixedCheck THEN 1 ELSE 2
             a0 == SeedHash(params.randomSeed)
         IN /\ Len(revTrials) = rev.processed
            /\ rev.draws = rev.processed * d
            /\ rev.seeded =>
                 /\ rev.a = StateAfter(a0, rev.draws)
                 /\ \A i \in 1..rev.processed :
                      /\ revTrials[i].g =
                           triRandom(params.gMin, params.gMode, params.gMax,
                                     WordToU(MulberryOut(StateAfter(a0, d * i))))
                      /\ ~params.rFixedCheck =>
                           revTrials[i].r =
                             triRandom(params.rMin, params.rMode, params.rMax,
                                       WordToU(MulberryOut(StateAfter(a0, d * (i - 1) + 1))))
\* A seeded forward run of triangular discount rate is suspended after a pass
\* in which it discarded a trial, and has taken two draws for every trial.
C27_Witness ==
    /\ fwd.pc = "running"
    /\ fwd.seeded
    /\ ~Profile(fwd.params).rFixedCheck
    /\ fwd.processed > 0
    /\ fwd.draws = 2 * fwd.processed
    /\ \E i \in 1..Len(fwdTrials) : ~ValidTrial(fwdTrials[i])

\* h * 31 + charCode modulo 2^32, on the 16-bit halves of h
Times31Plus(h, charCode) ==
    <<((h[1] * 31) + (((h[2] * 31) + charCode) \div W16)) % W16,
      ((h[2] * 31) + charCode) % W16>>

RECURSIVE RollingHash(_, _)
\* The rolling hash of the first n characters: h0 = 0, h(i+1) = h(i) * 31 + charCode(i)
RollingHash(str, n) ==
    IF n = 0 THEN <<0, 0>> ELSE Times31Plus(RollingHash(str, n - 1), str[n])

\* C28: the seed integer is the rolling hash of the seed string.  A run is
\* seeded exactly when the seed string is not empty; its seed integer is then
\* h0 = 0, h(i+1) = h(i) * 31 + charCode(i) wrapped to 32 bits; and one pass of
\* the shift-and-subtract loop body gives h * 31 + charCode modulo 2^32 for a
\* 32-bit h of any size and sign.
C28_SeedIsRollingHash ==
    /\ probe.last = "seed" =>
         /\ probe.seeded <=> probe.str # <<>>
         /\ probe.seeded => probe.seedInt = RollingHash(probe.str, Len(probe.str))
    /\ probe.last = "step" => probe.seedInt = Times31Plus(probe.h, probe.code)
\* The hash of a seed of MaxSeedLen characters has wrapped into the negative
\* 32-bit integers.
C28_Witness ==
    /\ probe.last = "seed"
    /\ Len(probe.str) = MaxSeedLen
    /\ probe.seeded
    /\ probe.seedInt[1] >= 32768

\* C29: a forward invocation gives the buttons back.  As stated: once a forward
\* invocation has ended, on whatever path, the run button and the reset button
\* are enabled again, and the progress indicator is hidden unless a reverse run
\* is showing its progress.
C29_ButtonsGivenBack ==
    fwd.pc # "running" =>
      /\ ~runBtnDisabled
      /\ ~resetBtnDisabled
      /\ rev.pc # "running" => progressHidden

\* C30: the shared progress indicator follows a run in progress.  As stated:
\* in every state in which a forward or a reverse run is suspended, the
\* indicator is visible and its value is the progress of one of the suspended
\* runs.
C30_IndicatorShowsRunningRun ==
    fwd.pc = "running" \/ rev.pc = "running" =>
      /\ ~progressHidden
      /\ \/ /\ fwd.pc = "running"
            /\ progressValue = ProgressPct(fwd.processed, Profile(fwd.params).iterations.v)
         \/ /\ rev.pc = "running"
            /\ progressValue = ProgressPct(rev.processed, Profile(rev.params).iterations.v)

====
